---- MODULE Spec2Model ----
(***************************************************************************)
(* Field-level encryption (Encryption, Patient) and the request gates      *)
(* (verifyToken, checkPermission) of the EHR application, as given in the   *)
(* security guide (src/unnamed/part_000).                                   *)
(*                                                                          *)
(* Strings are sequences of UTF-16 code units, buffers are sequences of     *)
(* bytes (0..255), base64 text is a sequence of alphabet indices (0..63)    *)
(* with 64 standing for the padding character '='.                          *)
(***************************************************************************)
EXTENDS Integers, Sequences, FiniteSets, TLC

\* ------------------------------------------------------------------------
\* Bounds of the model
\* ------------------------------------------------------------------------
\* number of distinct outcomes crypto.randomBytes can produce per length
NumSeeds == 2
\* number of requests per window of the client that sends few (SpecLimiter)
MaxQuietHits == 2
\* number of rows of medical_records (SpecRecords)
MaxRecords == 2
\* number of Encryption calls that may be in flight together (SpecCalls)
MaxCalls == 2
\* number of distinct outcomes of crypto.randomBytes while a request handler
\* runs (SpecAccess)
NumHandlerSeeds == 1

\* ------------------------------------------------------------------------
\* Program constants (server/src/utils/encryption.ts)
\* ------------------------------------------------------------------------
IV_LENGTH == 16
SALT_LENGTH == 64
TAG_LENGTH == 16
KEY_LENGTH == 32
ITERATIONS == 100000

\* ------------------------------------------------------------------------
\* Sequence helpers
\* ------------------------------------------------------------------------
Min(a, b) == IF a < b THEN a ELSE b

RECURSIVE SumUpTo(_, _)
SumUpTo(s, n) == IF n = 0 THEN 0 ELSE s[n] + SumUpTo(s, n - 1)

\* sum of the elements of a sequence of numbers
Sum(s) == SumUpTo(s, Len(s))

RECURSIVE WeightedUpTo(_, _, _)
WeightedUpTo(s, n, j) ==
    IF n = 0 THEN 0 ELSE s[n] * (2 * (n + j) + 1) + WeightedUpTo(s, n - 1, j)

\* Buffer.prototype.slice(start, end): offsets are clamped to the length
Slice(buf, start, end) == SubSeq(buf, Min(start, Len(buf)) + 1, Min(end, Len(buf)))

\* Buffer.concat([a, b, c, d])
Concat4(a, b, c, d) == a \o b \o c \o d

\* ------------------------------------------------------------------------
\* UTF-8 (cipher.update(text, 'utf8'); Buffer + string, i.e. toString('utf8'))
\* ------------------------------------------------------------------------
IsHighSurrogate(u) == u >= 55296 /\ u <= 56319
IsLowSurrogate(u) == u >= 56320 /\ u <= 57343

\* the UTF-8 bytes of one code point
Utf8OfCodePoint(cp) ==
    IF cp < 128 THEN <<cp>>
    ELSE IF cp < 2048 THEN <<192 + (cp \div 64), 128 + (cp % 64)>>
    ELSE IF cp < 65536
         THEN <<224 + (cp \div 4096), 128 + ((cp \div 64) % 64), 128 + (cp % 64)>>
    ELSE <<240 + (cp \div 262144), 128 + ((cp \div 4096) % 64),
           128 + ((cp \div 64) % 64), 128 + (cp % 64)>>

RECURSIVE Utf8EncodeFrom(_, _)
Utf8EncodeFrom(s, i) ==
    IF i > Len(s) THEN << >>
    ELSE IF IsHighSurrogate(s[i]) /\ i < Len(s) /\ IsLowSurrogate(s[i + 1])
         THEN Utf8OfCodePoint(65536 + (s[i] - 55296) * 1024 + (s[i + 1] - 56320))
              \o Utf8EncodeFrom(s, i + 2)
    ELSE IF IsHighSurrogate(s[i]) \/ IsLowSurrogate(s[i])
         \* an unpaired surrogate is written as U+FFFD (EF BF BD)
         THEN Utf8OfCodePoint(65533) \o Utf8EncodeFrom(s, i + 1)
    ELSE Utf8OfCodePoint(s[i]) \o Utf8EncodeFrom(s, i + 1)

\* string -> bytes, encoding 'utf8'
Utf8Encode(s) == Utf8EncodeFrom(s, 1)

\* the UTF-16 code units of one code point
Utf16OfCodePoint(cp) ==
    IF cp < 65536 THEN <<cp>>
    ELSE <<55296 + ((cp - 65536) \div 1024), 56320 + ((cp - 65536) % 1024)>>

IsCont(b, i) == i <= Len(b) /\ b[i] >= 128 /\ b[i] <= 191

RECURSIVE Utf8DecodeFrom(_, _)
Utf8DecodeFrom(b, i) ==
    IF i > Len(b) THEN << >>
    ELSE IF b[i] < 128 THEN <<b[i]>> \o Utf8DecodeFrom(b, i + 1)
    ELSE IF b[i] >= 194 /\ b[i] <= 223 /\ IsCont(b, i + 1)
         THEN <<(b[i] - 192) * 64 + (b[i + 1] - 128)>> \o Utf8DecodeFrom(b, i + 2)
    ELSE IF b[i] >= 224 /\ b[i] <= 239 /\ IsCont(b, i + 1) /\ IsCont(b, i + 2)
            /\ LET cp == (b[i] - 224) * 4096 + (b[i + 1] - 128) * 64 + (b[i + 2] - 128)
               IN  cp >= 2048 /\ ~(cp >= 55296 /\ cp <= 57343)
         THEN <<(b[i] - 224) * 4096 + (b[i + 1] - 128) * 64 + (b[i + 2] - 128)>>
              \o Utf8DecodeFrom(b, i + 3)
    ELSE IF b[i] >= 240 /\ b[i] <= 244 /\ IsCont(b, i + 1) /\ IsCont(b, i + 2)
            /\ IsCont(b, i + 3)
            /\ LET cp == (b[i] - 240) * 262144 + (b[i + 1] - 128) * 4096
                         + (b[i + 2] - 128) * 64 + (b[i + 3] - 128)
               IN  cp >= 65536 /\ cp <= 1114111
         THEN Utf16OfCodePoint((b[i] - 240) * 262144 + (b[i + 1] - 128) * 4096
                               + (b[i + 2] - 128) * 64 + (b[i + 3] - 128))
              \o Utf8DecodeFrom(b, i + 4)
    \* a byte that starts no well-formed sequence decodes to U+FFFD
    ELSE <<65533>> \o Utf8DecodeFrom(b, i + 1)

\* bytes -> string, encoding 'utf8'
Utf8Decode(b) == Utf8DecodeFrom(b, 1)

\* ------------------------------------------------------------------------
\* base64 (Buffer.toString('base64'), Buffer.from(s, 'base64'))
\* ------------------------------------------------------------------------
PAD == 64

ByteAt(b, i) == IF i <= Len(b) THEN b[i] ELSE 0

Base64Char(b, k) ==
    LET g == (k - 1) \div 4
        r == (k - 1) % 4
        b0 == ByteAt(b, 3 * g + 1)
        b1 == ByteAt(b, 3 * g + 2)
        b2 == ByteAt(b, 3 * g + 3)
    IN  CASE r = 0 -> b0 \div 4
          [] r = 1 -> (b0 % 4) * 16 + (b1 \div 16)
          [] r = 2 -> IF 3 * g + 2 > Len(b) THEN PAD ELSE (b1 % 16) * 4 + (b2 \div 64)
          [] r = 3 -> IF 3 * g + 3 > Len(b) THEN PAD ELSE b2 % 64

\* buffer.toString('base64')
Base64Encode(b) == [k \in 1..(4 * ((Len(b) + 2) \div 3)) |-> Base64Char(b, k)]

RECURSIVE DataLen(_, _)
\* number of characters in front of the first padding character
DataLen(s, i) == IF i > Len(s) \/ s[i] = PAD THEN i - 1 ELSE DataLen(s, i + 1)

CharAt(s, i, m) == IF i <= m THEN s[i] ELSE 0

Base64Byte(s, k, m) ==
    LET g == (k - 1) \div 3
        r == (k - 1) % 3
        c0 == CharAt(s, 4 * g + 1, m)
        c1 == CharAt(s, 4 * g + 2, m)
        c2 == CharAt(s, 4 * g + 3, m)
        c3 == CharAt(s, 4 * g + 4, m)
    IN  CASE r = 0 -> c0 * 4 + (c1 \div 16)
          [] r = 1 -> (c1 % 16) * 16 + (c2 \div 4)
          [] r = 2 -> (c2 % 4) * 64 + c3

\* Buffer.from(s, 'base64'): decoding stops at the padding; a trailing group
\* of 2 (3) characters gives 1 (2) bytes, a single trailing character none
Base64Decode(s) ==
    LET m == DataLen(s, 1)
        n == 3 * (m \div 4) + (CASE m % 4 = 0 -> 0 [] m % 4 = 1 -> 0
                                 [] m % 4 = 2 -> 1 [] m % 4 = 3 -> 2)
    IN  [k \in 1..n |-> Base64Byte(s, k, m)]

\* ------------------------------------------------------------------------
\* Platform primitives used by Encryption (node:crypto)
\* ------------------------------------------------------------------------
Seeds == 1..NumSeeds

\* crypto.randomBytes(n): one of NumSeeds possible outcomes of length n
RandomBytes(n, seed) == [i \in 1..n |-> (97 * seed + (2 * seed + 1) * i) % 256]

\* crypto.pbkdf2(key, salt, ITERATIONS, KEY_LENGTH, 'sha512'): a function of
\* the password bytes, the salt bytes and the iteration count
Pbkdf2(password, salt, iterations, keylen) ==
    LET hp == WeightedUpTo(password, Len(password), 0)
        hs == WeightedUpTo(salt, Len(salt), 1)
    IN  [k \in 1..keylen |-> (5 * hp + 3 * hs + iterations + 11 * k) % 256]

\* counter-mode key stream byte i under (derivedKey, iv)
KeyStream(sk, si, i) == (sk + 3 * si + 29 * i) % 256

\* cipher.update(bytes) for aes-256-gcm: byte-wise stream encryption
GcmEncrypt(plain, derivedKey, iv) ==
    LET sk == Sum(derivedKey)
        si == Sum(iv)
    IN  [i \in 1..Len(plain) |-> (plain[i] + KeyStream(sk, si, i)) % 256]

\* decipher.update(bytes): the inverse stream operation
GcmDecrypt(encrypted, derivedKey, iv) ==
    LET sk == Sum(derivedKey)
        si == Sum(iv)
    IN  [i \in 1..Len(encrypted) |-> (encrypted[i] + 256 - KeyStream(sk, si, i)) % 256]

\* cipher.getAuthTag(): a keyed tag over the ciphertext and its length; every
\* ciphertext byte enters every tag byte with an odd (invertible) weight
GcmTag(encrypted, derivedKey, iv) ==
    LET sk == Sum(derivedKey)
        si == Sum(iv)
    IN  [j \in 1..TAG_LENGTH |->
            (WeightedUpTo(encrypted, Len(encrypted), j) + 7 * Len(encrypted)
             + sk * (2 * j + 1) + si + j) % 256]

\* tag lengths decipher.setAuthTag accepts for GCM
ValidTagLengths == {4, 8, 12, 13, 14, 15, 16}

\* ------------------------------------------------------------------------
\* Outcomes of a call: a returned value or a thrown error
\* ------------------------------------------------------------------------
NoResult == [kind |-> "none", value |-> << >>, error |-> "none"]
Value(v) == [kind |-> "value", value |-> v, error |-> "none"]
Throw(e) == [kind |-> "error", value |-> << >>, error |-> e]

\* error thrown by decipher.final() when the tag does not verify
AuthFailed == "Unsupported state or unable to authenticate data"
\* error thrown by createDecipheriv for an empty iv
InvalidIv == "Invalid initialization vector"
\* error thrown by setAuthTag for a tag of unsupported length
InvalidTagLength == "Invalid authentication tag length"

\* ------------------------------------------------------------------------
\* Encryption (server/src/utils/encryption.ts)
\* ------------------------------------------------------------------------
\* deriveKey leaving the secret out of the derivation
deriveKeySaltOnly(key, salt) == Pbkdf2(<< >>, salt, ITERATIONS, KEY_LENGTH)

\* Encryption.deriveKey(key, salt)
deriveKey(key, salt) == Pbkdf2(Utf8Encode(key), salt, ITERATIONS, KEY_LENGTH)

\* error the pbkdf2 callback reports in its first argument
Pbkdf2Failed == "pbkdf2 failed"
\* error of createCipheriv / createDecipheriv for a key that is undefined
InvalidKeyType == "ERR_INVALID_ARG_TYPE (key)"

\* resolve(...) or reject(...) on a promise: only the first one settles it
Settle(promise, outcome) == IF promise.kind = "none" THEN outcome ELSE promise

\* deriveKeyPromise calling resolve(derivedKey) in front of the error test
deriveKeyPromiseResolveFirst(key, salt, err) ==
    LET derivedKey == IF err THEN << >> ELSE deriveKey(key, salt)
        resolved == Settle(NoResult, Value(derivedKey))
    IN  IF err THEN Settle(resolved, Throw(Pbkdf2Failed)) ELSE resolved

\* the promise Encryption.deriveKey returns once the pbkdf2 callback has run
\* with (err, derivedKey): `if (err) reject(err)` and then, in either case,
\* `resolve(derivedKey)`; derivedKey is undefined (here << >>) with an error
deriveKeyPromise(key, salt, err) ==
    LET derivedKey == IF err THEN << >> ELSE deriveKey(key, salt)
        rejected == IF err THEN Settle(NoResult, Throw(Pbkdf2Failed)) ELSE NoResult
    IN  Settle(rejected, Value(derivedKey))

\* Encryption.encrypt after its await: the ciphertext and its tag
EncryptSeal(text, key, salt, iv) ==
    LET derivedKey == deriveKey(key, salt)
        encrypted == GcmEncrypt(Utf8Encode(text), derivedKey, iv)
    IN  [encrypted |-> encrypted, tag |-> GcmTag(encrypted, derivedKey, iv)]

\* Pack leaving the iv out of the envelope
PackNoIv(salt, iv, tag, encrypted) == Base64Encode(Concat4(salt, << >>, tag, encrypted))

\* Pack with the tag written behind the ciphertext
PackTagLast(salt, iv, tag, encrypted) == Base64Encode(Concat4(salt, iv, encrypted, tag))

\* the envelope Encryption.encrypt returns
Pack(salt, iv, tag, encrypted) == Base64Encode(Concat4(salt, iv, tag, encrypted))

\* Unpack reading the salt from behind the iv
UnpackSaltAfterIv(encryptedText) ==
    LET buffer == Base64Decode(encryptedText)
    IN  [salt |-> Slice(buffer, IV_LENGTH, IV_LENGTH + SALT_LENGTH),
         iv |-> Slice(buffer, SALT_LENGTH, SALT_LENGTH + IV_LENGTH),
         tag |-> Slice(buffer, SALT_LENGTH + IV_LENGTH,
                       SALT_LENGTH + IV_LENGTH + TAG_LENGTH),
         encrypted |-> Slice(buffer, SALT_LENGTH + IV_LENGTH + TAG_LENGTH,
                             Len(buffer))]

\* the four slices Encryption.decrypt takes from the decoded buffer
Unpack(encryptedText) ==
    LET buffer == Base64Decode(encryptedText)
    IN  [salt |-> Slice(buffer, 0, SALT_LENGTH),
         iv |-> Slice(buffer, SALT_LENGTH, SALT_LENGTH + IV_LENGTH),
         tag |-> Slice(buffer, SALT_LENGTH + IV_LENGTH,
                       SALT_LENGTH + IV_LENGTH + TAG_LENGTH),
         encrypted |-> Slice(buffer, SALT_LENGTH + IV_LENGTH + TAG_LENGTH,
                             Len(buffer))]

\* the primitives Encryption.decrypt runs after its await, in order, up to
\* and including the one that throws
DecryptSteps(key, salt, iv, tag, encrypted) ==
    IF Len(iv) = 0 THEN <<"deriveKey", "createDecipheriv">>
    ELSE IF Len(tag) \notin ValidTagLengths
         THEN <<"deriveKey", "createDecipheriv", "setAuthTag">>
    ELSE <<"deriveKey", "createDecipheriv", "setAuthTag", "update", "final">>

\* DecryptFinish reading the plaintext bytes as latin1 instead of utf8
DecryptFinishLatin1(key, salt, iv, tag, encrypted) ==
    LET derivedKey == deriveKey(key, salt)
    IN  IF Len(iv) = 0 THEN Throw(InvalidIv)
        ELSE IF Len(tag) \notin ValidTagLengths THEN Throw(InvalidTagLength)
        ELSE IF SubSeq(GcmTag(encrypted, derivedKey, iv), 1, Len(tag)) # tag
             THEN Throw(AuthFailed)
        ELSE Value(GcmDecrypt(encrypted, derivedKey, iv))

\* DecryptFinish returning decipher.update's output without calling final()
DecryptFinishNoFinal(key, salt, iv, tag, encrypted) ==
    LET derivedKey == deriveKey(key, salt)
    IN  IF Len(iv) = 0 THEN Throw(InvalidIv)
        ELSE IF Len(tag) \notin ValidTagLengths THEN Throw(InvalidTagLength)
        ELSE Value(Utf8Decode(GcmDecrypt(encrypted, derivedKey, iv)))

\* Encryption.decrypt after its await: decipher, tag check, utf8 decoding
DecryptFinish(key, salt, iv, tag, encrypted) ==
    LET derivedKey == deriveKey(key, salt)
    IN  IF Len(iv) = 0 THEN Throw(InvalidIv)
        ELSE IF Len(tag) \notin ValidTagLengths THEN Throw(InvalidTagLength)
        ELSE IF SubSeq(GcmTag(encrypted, derivedKey, iv), 1, Len(tag)) # tag
             THEN Throw(AuthFailed)
        ELSE Value(Utf8Decode(GcmDecrypt(encrypted, derivedKey, iv)))

\* ------------------------------------------------------------------------
\* JSON text of a medical history (JSON.stringify / JSON.parse in Patient)
\* A JSON value is null, a string, or an array of strings.
\* ------------------------------------------------------------------------
JNull == [t |-> "null", s |-> << >>, a |-> << >>]
JStr(x) == [t |-> "str", s |-> x, a |-> << >>]
JArr(xs) == [t |-> "arr", s |-> << >>, a |-> xs]
\* the value of a property that is not there
JUndefined == [t |-> "undefined", s |-> << >>, a |-> << >>]

QUOTE == 34
BACKSLASH == 92

HexDigit(n) == IF n < 10 THEN 48 + n ELSE 87 + n
HexValue(u) ==
    IF u >= 48 /\ u <= 57 THEN u - 48
    ELSE IF u >= 97 /\ u <= 102 THEN u - 87
    ELSE IF u >= 65 /\ u <= 70 THEN u - 55
    ELSE 0 - 1

RECURSIVE QuoteFrom(_, _)
\* the characters of a JSON string literal: quotes and backslashes are
\* escaped, an unpaired surrogate is written as \udxxx
QuoteFrom(x, i) ==
    IF i > Len(x) THEN << >>
    ELSE IF x[i] = QUOTE \/ x[i] = BACKSLASH
         THEN <<BACKSLASH, x[i]>> \o QuoteFrom(x, i + 1)
    ELSE IF IsHighSurrogate(x[i]) /\ i < Len(x) /\ IsLowSurrogate(x[i + 1])
         THEN <<x[i], x[i + 1]>> \o QuoteFrom(x, i + 2)
    ELSE IF IsHighSurrogate(x[i]) \/ IsLowSurrogate(x[i])
         THEN <<BACKSLASH, 117, HexDigit(x[i] \div 4096), HexDigit((x[i] \div 256) % 16),
                HexDigit((x[i] \div 16) % 16), HexDigit(x[i] % 16)>>
              \o QuoteFrom(x, i + 1)
    ELSE <<x[i]>> \o QuoteFrom(x, i + 1)

Quote(x) == <<QUOTE>> \o QuoteFrom(x, 1) \o <<QUOTE>>

RECURSIVE QuoteAll(_, _)
QuoteAll(xs, i) ==
    IF i > Len(xs) THEN << >>
    ELSE (IF i > 1 THEN <<44>> ELSE << >>) \o Quote(xs[i]) \o QuoteAll(xs, i + 1)

\* JSON.stringify(v); for undefined the result is undefined, not a string
JsonStringify(v) ==
    CASE v.t = "null" -> <<110, 117, 108, 108>>
      [] v.t = "str" -> Quote(v.s)
      [] v.t = "arr" -> <<91>> \o QuoteAll(v.a, 1) \o <<93>>

RECURSIVE ParseChars(_, _, _)
\* reads the characters of a string literal from position i (behind the
\* opening quote): [ok, val, next], next being the position behind the
\* closing quote
ParseChars(x, i, acc) ==
    IF i > Len(x) THEN [ok |-> FALSE, val |-> << >>, next |-> i]
    ELSE IF x[i] = QUOTE THEN [ok |-> TRUE, val |-> acc, next |-> i + 1]
    ELSE IF x[i] = BACKSLASH
         THEN IF i + 1 <= Len(x) /\ (x[i + 1] = QUOTE \/ x[i + 1] = BACKSLASH)
              THEN ParseChars(x, i + 2, Append(acc, x[i + 1]))
              ELSE IF i + 5 <= Len(x) /\ x[i + 1] = 117
                      /\ \A k \in 2..5 : HexValue(x[i + k]) >= 0
                   THEN ParseChars(x, i + 6,
                                   Append(acc, HexValue(x[i + 2]) * 4096
                                               + HexValue(x[i + 3]) * 256
                                               + HexValue(x[i + 4]) * 16
                                               + HexValue(x[i + 5])))
                   ELSE [ok |-> FALSE, val |-> << >>, next |-> i]
    ELSE IF x[i] < 32 THEN [ok |-> FALSE, val |-> << >>, next |-> i]
    ELSE ParseChars(x, i + 1, Append(acc, x[i]))

RECURSIVE ParseElements(_, _, _)
\* reads the elements of an array from position i (at an element)
ParseElements(x, i, acc) ==
    IF i > Len(x) \/ x[i] # QUOTE THEN [ok |-> FALSE, val |-> << >>, next |-> i]
    ELSE LET e == ParseChars(x, i + 1, << >>)
         IN  IF ~e.ok \/ e.next > Len(x) THEN [ok |-> FALSE, val |-> << >>, next |-> i]
             ELSE IF x[e.next] = 93
                  THEN [ok |-> TRUE, val |-> Append(acc, e.val), next |-> e.next + 1]
             ELSE IF x[e.next] = 44
                  THEN ParseElements(x, e.next + 1, Append(acc, e.val))
             ELSE [ok |-> FALSE, val |-> << >>, next |-> i]

\* JSON.parse(x): the value, or a SyntaxError
JsonParse(x) ==
    IF x = <<110, 117, 108, 108>> THEN Value(JNull)
    ELSE IF Len(x) >= 2 /\ x[1] = QUOTE
         THEN LET r == ParseChars(x, 2, << >>)
              IN  IF r.ok /\ r.next = Len(x) + 1 THEN Value(JStr(r.val))
                  ELSE Throw("SyntaxError")
    ELSE IF x = <<91, 93>> THEN Value(JArr(<< >>))
    ELSE IF Len(x) >= 2 /\ x[1] = 91
         THEN LET r == ParseElements(x, 2, << >>)
              IN  IF r.ok /\ r.next = Len(x) + 1 THEN Value(JArr(r.val))
                  ELSE Throw("SyntaxError")
    ELSE Throw("SyntaxError")

\* Encryption.encrypt(text, key) as a whole, s and t being the outcomes of
\* its two randomBytes calls (salt, iv)
encrypt(text, key, s, t) ==
    LET iv == RandomBytes(IV_LENGTH, t)
        salt == RandomBytes(SALT_LENGTH, s)
        sealed == EncryptSeal(text, key, salt, iv)
    IN  Value(Pack(salt, iv, sealed.tag, sealed.encrypted))

\* Encryption.decrypt(encryptedText, key) as a whole
decrypt(encryptedText, key) ==
    LET u == Unpack(encryptedText)
    IN  DecryptFinish(key, u.salt, u.iv, u.tag, u.encrypted)

\* ------------------------------------------------------------------------
\* Patient (server/src/models/Patient.ts)
\* ------------------------------------------------------------------------
\* Patient.ENCRYPTION_KEY (process.env.DATA_ENCRYPTION_KEY): "s1"
ENCRYPTION_KEY == <<115, 49>>

\* error of cipher.update(undefined, 'utf8')
InvalidArgType == "ERR_INVALID_ARG_TYPE"

\* Patient.encrypt(patient); d holds the outcomes of the four randomBytes
\* calls of its two Encryption.encrypt calls
PatientEncrypt(patient, d) ==
    LET ssn == encrypt(patient.ssn, ENCRYPTION_KEY, d[1], d[2])
    IN  IF patient.medicalHistory.t = "undefined" THEN Throw(InvalidArgType)
        ELSE Value([patient EXCEPT
                      !.ssn = ssn.value,
                      !.medicalHistory =
                          encrypt(JsonStringify(patient.medicalHistory),
                                  ENCRYPTION_KEY, d[3], d[4]).value])

\* Patient.decrypt(patient)
PatientDecrypt(patient) ==
    LET ssn == decrypt(patient.ssn, ENCRYPTION_KEY)
        history == decrypt(patient.medicalHistory, ENCRYPTION_KEY)
        parsed == JsonParse(history.value)
    IN  IF ssn.kind = "error" THEN ssn
        ELSE IF history.kind = "error" THEN history
        ELSE IF parsed.kind = "error" THEN parsed
        ELSE Value([patient EXCEPT !.ssn = ssn.value,
                                   !.medicalHistory = parsed.value])

\* ------------------------------------------------------------------------
\* JWT verification (server/src/middleware/auth.ts)
\* An Authorization header is a sequence of atoms: words, single spaces and
\* tokens.  A token carries its claims, the secret it was signed with and
\* whether it has expired.
\* ------------------------------------------------------------------------
\* process.env.JWT_SECRET
JWT_SECRET == "jwt-secret"

Word(w) == [kind |-> "word", text |-> w, id |-> 0, role |-> "", sig |-> "", expired |-> FALSE]
Space == [kind |-> "space", text |-> " ", id |-> 0, role |-> "", sig |-> "", expired |-> FALSE]
Jwt(i, r, k, e) == [kind |-> "jwt", text |-> "", id |-> i, role |-> r, sig |-> k, expired |-> e]

\* req.user: the decoded claims, or undefined
NoUser == [defined |-> FALSE, id |-> 0, role |-> "undefined"]
User(i, r) == [defined |-> TRUE, id |-> i, role |-> r]

RECURSIVE SplitFrom(_, _, _)
\* String.prototype.split(' '): the parts between single spaces
SplitFrom(h, i, part) ==
    IF i > Len(h) THEN <<part>>
    ELSE IF h[i].kind = "space" THEN <<part>> \o SplitFrom(h, i + 1, << >>)
    ELSE SplitFrom(h, i + 1, Append(part, h[i]))

Split(h) == SplitFrom(h, 1, << >>)

\* jwt.verify(token, secret): the claims of a well-formed token signed with
\* the secret and not expired; an error otherwise
JwtVerify(token, secret) ==
    IF Len(token) # 1 \/ token[1].kind # "jwt" THEN Throw("jwt malformed")
    ELSE IF token[1].sig # secret THEN Throw("invalid signature")
    ELSE IF token[1].expired THEN Throw("jwt expired")
    ELSE Value(User(token[1].id, token[1].role))

\* what a middleware did: the response it sent (status 0: none), req.user
\* afterwards, whether it called next(), whether it threw
Did(status, message, user, next, threw) ==
    [status |-> status, message |-> message, user |-> user, next |-> next,
     threw |-> threw]

\* verifyToken accepting the claims of any well-formed token without verifying
VerifyTokenDecodeOnly(authorization) ==
    LET parts == IF authorization.present THEN Split(authorization.value) ELSE << >>
    IN  IF Len(parts) < 2 \/ parts[2] = << >>
        THEN Did(401, "No token provided", NoUser, FALSE, FALSE)
        ELSE IF Len(parts[2]) = 1 /\ parts[2][1].kind = "jwt"
             THEN Did(0, "", User(parts[2][1].id, parts[2][1].role), TRUE, FALSE)
             ELSE Did(401, "Invalid token", NoUser, FALSE, FALSE)

\* verifyToken(req, res, next)
verifyToken(authorization) ==
    LET parts == IF authorization.present THEN Split(authorization.value) ELSE << >>
    IN  IF Len(parts) < 2 \/ parts[2] = << >>
        THEN Did(401, "No token provided", NoUser, FALSE, FALSE)
        ELSE LET decoded == JwtVerify(parts[2], JWT_SECRET)
             IN  IF decoded.kind = "value"
                 THEN Did(0, "", decoded.value, TRUE, FALSE)
                 ELSE Did(401, "Invalid token", NoUser, FALSE, FALSE)

\* ------------------------------------------------------------------------
\* Role-based access control (server/src/middleware/rbac.ts)
\* ------------------------------------------------------------------------
roles == [ADMIN |-> "admin", DOCTOR |-> "doctor", NURSE |-> "nurse", PATIENT |-> "patient"]

permissions ==
    [READ_PATIENT |-> "read:patient", WRITE_PATIENT |-> "write:patient",
     READ_RECORD |-> "read:record", WRITE_RECORD |-> "write:record",
     MANAGE_USERS |-> "manage:users"]

\* Object.values(permissions), in the order of the literal
PermissionValues ==
    <<permissions.READ_PATIENT, permissions.WRITE_PATIENT, permissions.READ_RECORD,
      permissions.WRITE_RECORD, permissions.MANAGE_USERS>>

\* rolePermissions with manage:users left out of the admin list
rolePermissionsAdminShort ==
    (roles.ADMIN :> <<permissions.READ_PATIENT, permissions.WRITE_PATIENT,
                      permissions.READ_RECORD, permissions.WRITE_RECORD>>)
    @@ (roles.DOCTOR :> <<permissions.READ_PATIENT, permissions.WRITE_PATIENT,
                          permissions.READ_RECORD, permissions.WRITE_RECORD>>)
    @@ (roles.NURSE :> <<permissions.READ_PATIENT, permissions.READ_RECORD,
                         permissions.WRITE_RECORD>>)
    @@ (roles.PATIENT :> <<permissions.READ_RECORD>>)

\* rolePermissions with read:patient added to the patient list
rolePermissionsPatientWide ==
    (roles.ADMIN :> PermissionValues)
    @@ (roles.DOCTOR :> <<permissions.READ_PATIENT, permissions.WRITE_PATIENT,
                          permissions.READ_RECORD, permissions.WRITE_RECORD>>)
    @@ (roles.NURSE :> <<permissions.READ_PATIENT, permissions.READ_RECORD,
                         permissions.WRITE_RECORD>>)
    @@ (roles.PATIENT :> <<permissions.READ_PATIENT, permissions.READ_RECORD>>)

rolePermissions ==
    (roles.ADMIN :> PermissionValues)
    @@ (roles.DOCTOR :> <<permissions.READ_PATIENT, permissions.WRITE_PATIENT,
                          permissions.READ_RECORD, permissions.WRITE_RECORD>>)
    @@ (roles.NURSE :> <<permissions.READ_PATIENT, permissions.READ_RECORD,
                         permissions.WRITE_RECORD>>)
    @@ (roles.PATIENT :> <<permissions.READ_RECORD>>)

\* the three tables as the running process holds them
VARIABLE tables

\* the tables as the module's three `const` declarations build them
InitialTables ==
    [roles |-> roles, permissions |-> permissions, rolePermissions |-> rolePermissions]

\* property names every object literal inherits from Object.prototype
InheritedKeys == {"toString", "constructor", "__proto__", "hasOwnProperty", "valueOf"}

\* Array.prototype.includes
Includes(array, x) == \E i \in 1..Len(array) : array[i] = x

\* checkPermission without the `return` in front of the 403 response
CheckPermissionNoReturn(permission, user) ==
    IF ~user.defined THEN Did(0, "", user, FALSE, TRUE)
    ELSE IF user.role \in DOMAIN tables.rolePermissions
         THEN IF ~Includes(tables.rolePermissions[user.role], permission)
              THEN Did(403, "Insufficient permissions", user, TRUE, FALSE)
              ELSE Did(0, "", user, TRUE, FALSE)
    ELSE IF user.role \in InheritedKeys THEN Did(0, "", user, FALSE, TRUE)
    ELSE Did(403, "Insufficient permissions", user, TRUE, FALSE)

\* checkPermission testing only that the role has a permission list
CheckPermissionAnyList(permission, user) ==
    IF ~user.defined THEN Did(0, "", user, FALSE, TRUE)
    ELSE IF user.role \in DOMAIN tables.rolePermissions
         THEN Did(0, "", user, TRUE, FALSE)
    ELSE IF user.role \in InheritedKeys THEN Did(0, "", user, FALSE, TRUE)
    ELSE Did(403, "Insufficient permissions", user, FALSE, FALSE)

\* checkPermission(permission)(req, res, next): req.user undefined or a role
\* that names an inherited property (no `includes` on it) makes it throw
checkPermission(permission, user) ==
    IF ~user.defined THEN Did(0, "", user, FALSE, TRUE)
    ELSE IF user.role \in DOMAIN tables.rolePermissions
         THEN IF ~Includes(tables.rolePermissions[user.role], permission)
              THEN Did(403, "Insufficient permissions", user, FALSE, FALSE)
              ELSE Did(0, "", user, TRUE, FALSE)
    ELSE IF user.role \in InheritedKeys THEN Did(0, "", user, FALSE, TRUE)
    ELSE Did(403, "Insufficient permissions", user, FALSE, FALSE)

\* ------------------------------------------------------------------------
\* validatePatient (server/src/middleware/validation.ts)
\* ------------------------------------------------------------------------
\* the code units \s matches
WhiteSpace ==
    {9, 10, 11, 12, 13, 32, 160, 5760, 8232, 8233, 8239, 8287, 12288, 65279}
    \cup (8192..8202)

RECURSIVE TrimStart(_)
TrimStart(s) ==
    IF s # << >> /\ Head(s) \in WhiteSpace THEN TrimStart(Tail(s)) ELSE s

RECURSIVE TrimEnd(_)
TrimEnd(s) ==
    IF s # << >> /\ s[Len(s)] \in WhiteSpace
    THEN TrimEnd(SubSeq(s, 1, Len(s) - 1)) ELSE s

\* .trim()
Trim(s) == TrimEnd(TrimStart(s))

\* what .escape() writes for one code unit: & " ' < > / \ ` become entities
EscapeChar(c) ==
    CASE c = 38 -> <<38, 97, 109, 112, 59>>
      [] c = 34 -> <<38, 113, 117, 111, 116, 59>>
      [] c = 39 -> <<38, 35, 120, 50, 55, 59>>
      [] c = 60 -> <<38, 108, 116, 59>>
      [] c = 62 -> <<38, 103, 116, 59>>
      [] c = 47 -> <<38, 35, 120, 50, 70, 59>>
      [] c = 92 -> <<38, 35, 120, 53, 67, 59>>
      [] c = 96 -> <<38, 35, 57, 54, 59>>
      [] OTHER -> <<c>>

RECURSIVE Escape(_)
Escape(s) == IF s = << >> THEN << >> ELSE EscapeChar(Head(s)) \o Escape(Tail(s))

IsDigit(c) == c \in 48..57

\* .matches(/^\d{3}-\d{2}-\d{4}$/)
MatchesSsn(s) ==
    /\ Len(s) = 11
    /\ \A i \in {1, 2, 3, 5, 6, 8, 9, 10, 11} : IsDigit(s[i])
    /\ s[4] = 45
    /\ s[7] = 45

\* the validated fields, in the order of the chains
PatientFields == <<"firstName", "lastName", "dateOfBirth", "ssn", "email">>

\* validatePatient on a request body: the body with firstName trimmed and
\* escaped, the fields validationResult(req) lists, and whether next() is
\* called.  lastName, dateOfBirth and email are not part of the patient
\* modelled here: which of their chains fail is given by othersFailed.
validatePatient(body, othersFailed) ==
    LET firstName == Trim(body.firstName)
        failed == (IF firstName = << >> THEN {"firstName"} ELSE {})
                  \cup (IF MatchesSsn(body.ssn) THEN {} ELSE {"ssn"})
                  \cup othersFailed
        Failed(f) == f \in failed
        errors == SelectSeq(PatientFields, Failed)
    IN  [body |-> [body EXCEPT !.firstName = Escape(firstName)],
         errors |-> errors,
         next |-> errors = << >>]

\* ------------------------------------------------------------------------
\* Audit logging (server/src/utils/audit.ts, server/src/middleware/accessLog.ts)
\* ------------------------------------------------------------------------
\* logAudit(userId, action, resource, details), log being the entries of
\* audit.log.  The names bound in its body are its four parameters (beside
\* the module's winston, auditLogger and logAudit); the object for
\* auditLogger.info is built before info is called, and reading a name that
\* is not bound throws.
logAudit(log, userId, action, resource, details) ==
    LET scope == [userId |-> userId, action |-> action, resource |-> resource,
                  details |-> details]
    IN  IF "req" \notin DOMAIN scope
        THEN [log |-> log, threw |-> "ReferenceError: req is not defined"]
        ELSE [log |-> Append(log, [userId |-> scope.userId, action |-> scope.action,
                                   resource |-> scope.resource,
                                   details |-> scope.details, ip |-> scope.req.ip,
                                   userAgent |-> scope.req.headers["user-agent"]]),
              threw |-> "none"]

\* originalSend.call(this, body): Express's res.send
originalSend(a, body) ==
    [a EXCEPT !.sent = Append(@, body), !.order = Append(@, "originalSend"),
              !.status = 200]

\* the function logDataAccess puts in place of res.send, called with body
\* for the request of a
send(a, log, body) ==
    IF ~a.req.user.defined
    THEN [access |-> [a EXCEPT !.threw = "TypeError: reading 'id' of undefined"],
          log |-> log]
    ELSE LET l == logAudit(log, a.req.user.id, "data_access", a.req.path,
                           [method |-> a.req.method, query |-> a.req.query,
                            body |-> a.req.body])
         IN  IF l.threw # "none"
             THEN [access |-> [a EXCEPT !.threw = l.threw], log |-> l.log]
             ELSE [access |-> originalSend([a EXCEPT !.order = Append(@, "logAudit")],
                                           body),
                   log |-> l.log]

\* ------------------------------------------------------------------------
\* State
\* ------------------------------------------------------------------------
VARIABLES
    calls,   \* the Encryption calls: arguments, locals held across the await, outcome
    given,   \* for each decrypt call: where its argument came from
    drawn,   \* for each encrypt call: which outcomes its two randomBytes calls had
    req,     \* the request being served: Authorization header, req.user, route, body
    res,     \* the response sent for it (status 0: none yet)
    pc,      \* the middleware of the route's chain that runs next
    db,      \* the stored patient row (ssn and medicalHistory as envelopes)
    trace,   \* what has run for the request: next() calls and Encryption calls
    store,   \* the limiter's store: for each IP its count and the age of its key
    last,    \* what apiLimiter did with the latest request
    medical_records,  \* the rows of the medical_records table
    result,  \* the latest record query and the rows it returned
    patient, \* a patient object, what Patient.encrypt made of it and what
             \* Patient.decrypt made of that
    access,  \* the request on a route using logDataAccess and what became of it
    auditLog \* the entries of audit.log

encVars == <<calls, given, drawn>>
webVars == <<req, res, pc, db, trace, tables>>
limVars == <<store, last>>
recVars == <<medical_records, result>>
patVars == <<patient>>
audVars == <<access, auditLog>>
vars ==
    <<calls, given, drawn, req, res, pc, db, trace, tables, store, last,
      medical_records, result, patient, access, auditLog>>

Calls == 1..MaxCalls

\* a call slot nobody has called yet; err is the first argument the pbkdf2
\* callback was called with ("none": not called yet)
IdleCall ==
    [op |-> "none", pc |-> "idle", arg |-> << >>, key |-> << >>,
     salt |-> << >>, iv |-> << >>, tag |-> << >>, encrypted |-> << >>,
     err |-> "none", derivedKey |-> << >>, steps |-> << >>, ret |-> NoResult]

\* how a decrypt argument was obtained from the envelope of call `from`
NotGiven == [from |-> 0, kind |-> "none", pos |-> 0, delta |-> 0, len |-> 0]
AsIs(d) == [from |-> d, kind |-> "asis", pos |-> 0, delta |-> 0, len |-> 0]
Flip(d, p, x) == [from |-> d, kind |-> "flip", pos |-> p, delta |-> x, len |-> 0]
Trunc(d, n) == [from |-> d, kind |-> "trunc", pos |-> 0, delta |-> 0, len |-> n]

EncInit ==
    /\ calls = [c \in Calls |-> IdleCall]
    /\ given = [c \in Calls |-> NotGiven]
    /\ drawn = [c \in Calls |-> <<0, 0>>]

\* a patient object: plain (ssn a string, medicalHistory a JSON value) or
\* encrypted (both envelopes)
NoPatient == [id |-> 0, firstName |-> << >>, ssn |-> << >>, medicalHistory |-> JUndefined]

NoRequest ==
    [authorization |-> [present |-> FALSE, value |-> << >>], user |-> NoUser,
     op |-> "none", permission |-> "", body |-> NoPatient]

\* the body of a response: the name of its top-level property, the JSON type
\* of that property's value, and the items of an array value
Body(key, type, items) == [key |-> key, type |-> type, items |-> items]
NoBody == Body("", "", << >>)

NoResponse == [status |-> 0, message |-> "", body |-> NoBody]

\* res.status(status).json({ error: message })
Response(status, message) ==
    [status |-> status, message |-> message, body |-> Body("error", "string", << >>)]

\* res.status(400).json({ errors: errors.array() })
ValidationFailed(errors) ==
    [status |-> 400, message |-> "", body |-> Body("errors", "array", errors)]

\* a response of a route handler or of Express itself
Reply(status, message, body) == [status |-> status, message |-> message, body |-> body]
\* { data: ... }, the error format of docs/API.md, the page of Express's
\* own error handler
DataBody == Body("data", "object", << >>)
ErrorObjectBody == Body("error", "object", << >>)
HtmlBody == Body("", "html", << >>)

WebInit ==
    /\ req = NoRequest
    /\ res = NoResponse
    /\ pc = "idle"
    /\ db = [present |-> FALSE, row |-> NoPatient]
    /\ trace = << >>
    /\ tables = InitialTables

\* ------------------------------------------------------------------------
\* apiLimiter (server/src/middleware/rateLimit.ts)
\* ------------------------------------------------------------------------
API_WINDOW_MS == 15 * 60 * 1000
API_MAX == 100
API_MESSAGE == "Too many requests from this IP, please try again later"
\* status express-rate-limit answers a request over the limit with
TOO_MANY_REQUESTS == 429
\* one minute: the step of the clock
MINUTE_MS == 60 * 1000

\* the clients; the second one sends few requests
Ips == {"10.0.0.1", "10.0.0.2"}
QuietIp == "10.0.0.2"

\* a key of the store: its count and the time since it was set
NoKey == [hits |-> 0, age |-> 0]

\* what the limiter did with a request: the count incr returned, the age of
\* the key by then, the response sent (status 0: none), whether next ran
NoDecision ==
    [ip |-> "", current |-> 0, elapsed |-> 0, status |-> 0, message |-> "",
     next |-> FALSE]

LimInit ==
    /\ store = [ip \in Ips |-> NoKey]
    /\ last = NoDecision

\* ------------------------------------------------------------------------
\* medical_records, users and get_patient_records (database schema);
\* PatientService (server/src/services/PatientService.ts)
\* ------------------------------------------------------------------------
\* SQL NULL, and undefined for an optional argument
NULL == 0

PatientIds == {1, 2}
\* ids of the rows of users
UserIds == {1}
\* calendar days
Days == {1, 2}

\* a DATE as the TIMESTAMP WITH TIME ZONE it is compared as: midnight of the
\* day; time runs in half days
DateToTimestamp(d) == 2 * d

\* record_date values: midnight and noon of day 1, midnight of day 2
RecordDates == {DateToTimestamp(1), DateToTimestamp(1) + 1, DateToTimestamp(2)}

NoQuery ==
    [fn |-> "none", patientId |-> NULL, startDate |-> NULL, endDate |-> NULL,
     rows |-> << >>]

RecInit ==
    /\ medical_records = {}
    /\ result = NoQuery

\* no patient object yet; plain is the object given to Patient.encrypt,
\* stored and opened are the outcomes of Patient.encrypt(plain) and of
\* Patient.decrypt(stored)
PatInit ==
    patient = [pc |-> "none", plain |-> NoPatient, stored |-> NoResult,
               opened |-> NoResult]

\* no request yet, res.send is Express's own, audit.log is empty; sent are
\* the bodies handed to Express's send, order is what ran for res.send,
\* base the number of entries of audit.log when the request arrived
AudInit ==
    /\ access = [pc |-> "idle",
                 req |-> [user |-> NoUser, path |-> "", method |-> "", query |-> "",
                          body |-> ""],
                 send |-> "original", handed |-> "", sent |-> << >>, order |-> << >>,
                 threw |-> "none", status |-> 0, base |-> 0]
    /\ auditLog = << >>

\* ORDER BY record_date DESC: the orders a set of rows can come back in
OrderByRecordDateDesc(rows) ==
    { seq \in [1..Cardinality(rows) -> rows] :
        /\ \A i, j \in 1..Cardinality(rows) : i # j => seq[i] # seq[j]
        /\ \A i \in 1..(Cardinality(rows) - 1) :
              seq[i].record_date >= seq[i + 1].record_date }

\* PatientService.getPatientRecords(patientId, startDate)
getPatientRecords(table, patientId, startDate) ==
    OrderByRecordDateDesc(
        { r \in table :
            /\ r.patient_id = patientId
            /\ (startDate = NULL \/ r.record_date >= DateToTimestamp(startDate)) })

\* get_patient_records(p_patient_id, p_start_date, p_end_date)
get_patient_records(table, users, p_patient_id, p_start_date, p_end_date) ==
    OrderByRecordDateDesc(
        { mr \in table :
            /\ \E u \in users : mr.provider_id = u
            /\ mr.patient_id = p_patient_id
            /\ (p_start_date = NULL \/ mr.record_date >= DateToTimestamp(p_start_date))
            /\ (p_end_date = NULL \/ mr.record_date <= DateToTimestamp(p_end_date)) })

\* ------------------------------------------------------------------------
\* Inputs
\* ------------------------------------------------------------------------
\* plaintexts: "", "A", "é€", U+1F600 (a surrogate pair), an unpaired high
\* surrogate, and the social security number of the end-to-end scenario
Texts ==
    { << >>, <<65>>, <<233, 8364>>, <<55357, 56832>>, <<55357>>,
      <<49, 50, 51, 45, 52, 53, 45, 54, 55, 56, 57>> }

\* a string is well formed when every surrogate is part of a pair
WellFormed(s) ==
    \A i \in 1..Len(s) :
        /\ IsHighSurrogate(s[i]) => (i < Len(s) /\ IsLowSurrogate(s[i + 1]))
        /\ IsLowSurrogate(s[i]) => (i > 1 /\ IsHighSurrogate(s[i - 1]))

\* secrets: "s1" and "s2"
Secrets == { <<115, 49>>, <<115, 50>> }

\* amounts added (mod 256) to a byte that is changed
Deltas == {1, 128}

\* decoded lengths an envelope is cut down to
TruncLengths ==
    { 0, SALT_LENGTH, SALT_LENGTH + 6, SALT_LENGTH + IV_LENGTH,
      SALT_LENGTH + IV_LENGTH + 4, SALT_LENGTH + IV_LENGTH + 10,
      SALT_LENGTH + IV_LENGTH + TAG_LENGTH - 1 }

\* the ways the envelope returned by call d reaches a later decrypt: verbatim,
\* with one byte of its AuthTag or Ciphertext segment changed, or cut short
Variants(d, envelope) ==
    {AsIs(d)}
    \cup { Flip(d, p, x) :
             p \in (SALT_LENGTH + IV_LENGTH + 1)..Len(Base64Decode(envelope)),
             x \in Deltas }
    \cup { Trunc(d, n) : n \in TruncLengths }

\* the string a variant stands for
Corrupt(envelope, v) ==
    LET bytes == Base64Decode(envelope)
    IN  CASE v.kind = "asis" -> envelope
          [] v.kind = "flip" ->
               Base64Encode([bytes EXCEPT ![v.pos] = (@ + v.delta) % 256])
          [] v.kind = "trunc" -> Base64Encode(SubSeq(bytes, 1, v.len))

\* ------------------------------------------------------------------------
\* Encryption.encrypt / Encryption.decrypt as two-step calls: the part in
\* front of `await this.deriveKey(...)` and the part after it
\* ------------------------------------------------------------------------
\* EncryptStart with the salt and the iv drawn once for the process, not per call
EncryptStartStaticDraw(c, text, key, s, t) ==
    /\ calls[c].pc = "idle"
    /\ calls' = [calls EXCEPT ![c] =
                   [IdleCall EXCEPT !.op = "encrypt", !.pc = "await",
                                    !.arg = text, !.key = key,
                                    !.iv = RandomBytes(IV_LENGTH, 1),
                                    !.salt = RandomBytes(SALT_LENGTH, 1)]]
    /\ drawn' = [drawn EXCEPT ![c] = <<s, t>>]

EncryptStart(c, text, key, s, t) ==
    /\ calls[c].pc = "idle"
    /\ calls' = [calls EXCEPT ![c] =
                   [IdleCall EXCEPT !.op = "encrypt", !.pc = "await",
                                    !.arg = text, !.key = key,
                                    !.iv = RandomBytes(IV_LENGTH, t),
                                    !.salt = RandomBytes(SALT_LENGTH, s)]]
    /\ drawn' = [drawn EXCEPT ![c] = <<s, t>>]

\* EncryptResume with salt and iv kept in one place shared by all calls: the
\* values of the call that drew last are the ones sealed with
EncryptResumeSharedLocals(c) ==
    /\ calls[c].op = "encrypt"
    /\ calls[c].pc = "await"
    /\ calls' = [calls EXCEPT ![c] =
                   LET latest == CHOOSE d \in Calls :
                                 /\ calls[d].op = "encrypt"
                                 /\ calls[d].pc = "await"
                                 /\ \A e \in Calls :
                                       (calls[e].op = "encrypt" /\ calls[e].pc = "await")
                                       => e <= d
                       sealed == EncryptSeal(calls[c].arg, calls[c].key,
                                             calls[latest].salt, calls[latest].iv)
                   IN  [calls[c] EXCEPT
                          !.pc = "done",
                          !.err = "null",
                          !.derivedKey = deriveKey(calls[c].key, calls[latest].salt),
                          !.steps = <<"deriveKey", "createCipheriv", "update",
                                      "final", "getAuthTag">>,
                          !.encrypted = sealed.encrypted,
                          !.tag = sealed.tag,
                          !.ret = Value(Pack(calls[latest].salt, calls[latest].iv,
                                             sealed.tag, sealed.encrypted))]]

EncryptResume(c) ==
    /\ calls[c].op = "encrypt"
    /\ calls[c].pc = "await"
    /\ calls' = [calls EXCEPT ![c] =
                   LET sealed == EncryptSeal(calls[c].arg, calls[c].key,
                                             calls[c].salt, calls[c].iv)
                   IN  [calls[c] EXCEPT
                          !.pc = "done",
                          !.err = "null",
                          !.derivedKey = deriveKeyPromise(calls[c].key, calls[c].salt,
                                                          FALSE).value,
                          !.steps = <<"deriveKey", "createCipheriv", "update",
                                      "final", "getAuthTag">>,
                          !.encrypted = sealed.encrypted,
                          !.tag = sealed.tag,
                          !.ret = Value(Pack(calls[c].salt, calls[c].iv, sealed.tag,
                                             sealed.encrypted))]]

DecryptStart(c, encryptedText, key) ==
    /\ calls[c].pc = "idle"
    /\ calls' = [calls EXCEPT ![c] =
                   LET u == Unpack(encryptedText)
                   IN  [IdleCall EXCEPT !.op = "decrypt", !.pc = "await",
                                        !.arg = encryptedText, !.key = key,
                                        !.salt = u.salt, !.iv = u.iv,
                                        !.tag = u.tag, !.encrypted = u.encrypted]]

DecryptResume(c) ==
    /\ calls[c].op = "decrypt"
    /\ calls[c].pc = "await"
    /\ calls' = [calls EXCEPT ![c] =
                   [calls[c] EXCEPT
                      !.pc = "done",
                      !.err = "null",
                      !.derivedKey = deriveKeyPromise(calls[c].key, calls[c].salt,
                                                      FALSE).value,
                      !.steps = DecryptSteps(calls[c].key, calls[c].salt, calls[c].iv,
                                             calls[c].tag, calls[c].encrypted),
                      !.ret = DecryptFinish(calls[c].key, calls[c].salt, calls[c].iv,
                                            calls[c].tag, calls[c].encrypted)]]

\* ------------------------------------------------------------------------
\* Spec: one field's life.  Call 1 encrypts a plaintext; the envelope is
\* stored and comes back verbatim, changed in one byte, or cut short; call 2
\* decrypts what came back.
\* ------------------------------------------------------------------------
WriteStart ==
    /\ \E text \in Texts, key \in Secrets, s \in Seeds, t \in Seeds :
          EncryptStart(1, text, key, s, t)
    /\ UNCHANGED <<given, webVars, limVars, recVars, patVars, audVars>>

WriteResume ==
    /\ EncryptResume(1)
    /\ UNCHANGED <<given, drawn, webVars, limVars, recVars, patVars, audVars>>

ReadStart ==
    /\ calls[1].pc = "done"
    /\ \E v \in Variants(1, calls[1].ret.value), key \in Secrets :
          /\ DecryptStart(2, Corrupt(calls[1].ret.value, v), key)
          /\ given' = [given EXCEPT ![2] = v]
    /\ UNCHANGED <<drawn, webVars, limVars, recVars, patVars, audVars>>

ReadResume ==
    /\ DecryptResume(2)
    /\ UNCHANGED <<given, drawn, webVars, limVars, recVars, patVars, audVars>>

Init == EncInit /\ WebInit /\ LimInit /\ RecInit /\ PatInit
        /\ AudInit

Next == WriteStart \/ WriteResume \/ ReadStart \/ ReadResume

Spec == Init /\ [][Next]_vars

\* ------------------------------------------------------------------------
\* SpecCalls: up to MaxCalls Encryption calls in flight together, under the
\* process-wide key; a decrypt is given the envelope of a finished encrypt.
\* ------------------------------------------------------------------------
\* plaintexts of the concurrent calls: "A" and "é€"
CallTexts == { <<65>>, <<233, 8364>> }

\* slot c is the c-th call made
IsNextCall(c) == \A b \in Calls : b < c => calls[b].pc # "idle"

CallEncrypt ==
    /\ \E c \in Calls, text \in CallTexts, s \in Seeds, t \in Seeds :
          /\ IsNextCall(c)
          /\ EncryptStart(c, text, ENCRYPTION_KEY, s, t)
    /\ UNCHANGED <<given, webVars, limVars, recVars, patVars, audVars>>

CallEncryptResume ==
    /\ \E c \in Calls : EncryptResume(c)
    /\ UNCHANGED <<given, drawn, webVars, limVars, recVars, patVars, audVars>>

CallDecrypt ==
    /\ \E c \in Calls, d \in Calls :
          /\ calls[d].op = "encrypt"
          /\ calls[d].pc = "done"
          /\ IsNextCall(c)
          /\ DecryptStart(c, calls[d].ret.value, ENCRYPTION_KEY)
          /\ given' = [given EXCEPT ![c] = AsIs(d)]
    /\ UNCHANGED <<drawn, webVars, limVars, recVars, patVars, audVars>>

CallDecryptResume ==
    /\ \E c \in Calls : DecryptResume(c)
    /\ UNCHANGED <<given, drawn, webVars, limVars, recVars, patVars, audVars>>

NextCalls == CallEncrypt \/ CallEncryptResume \/ CallDecrypt \/ CallDecryptResume

SpecCalls == Init /\ [][NextCalls]_vars

\* ------------------------------------------------------------------------
\* SpecLive: the calls of SpecCalls with a pbkdf2 that may report an error.
\* Every pbkdf2 job ends by calling its callback, so a suspended call goes on
\* at some time, with a key or with the error.
\* ------------------------------------------------------------------------
\* the part of encrypt / decrypt behind the await when the pbkdf2 callback
\* was called with an error: the await throws what the promise was rejected
\* with and the call ends with it; nothing catches it
DeriveFails(c) ==
    /\ calls[c].pc = "await"
    /\ calls' = [calls EXCEPT ![c] =
                   LET promise == deriveKeyPromise(calls[c].key, calls[c].salt, TRUE)
                       create == IF calls[c].op = "encrypt" THEN "createCipheriv"
                                 ELSE "createDecipheriv"
                   IN  [calls[c] EXCEPT
                          !.pc = "done",
                          !.err = Pbkdf2Failed,
                          !.steps = IF promise.kind = "error" THEN <<"deriveKey">>
                                    ELSE <<"deriveKey", create>>,
                          !.ret = IF promise.kind = "error" THEN Throw(promise.error)
                                  ELSE Throw(InvalidKeyType)]]

\* the draw of every encrypt call of SpecLive
LiveSeed == 1

\* plaintexts of the calls of SpecLive: "", "A", "é€" and U+1F600
LiveTexts == { << >>, <<65>>, <<233, 8364>>, <<55357, 56832>> }

LiveEncrypt ==
    /\ \E c \in Calls, text \in LiveTexts :
          /\ IsNextCall(c)
          /\ EncryptStart(c, text, ENCRYPTION_KEY, LiveSeed, LiveSeed)
    /\ UNCHANGED <<given, webVars, limVars, recVars, patVars, audVars>>

LiveDecrypt ==
    /\ \E c \in Calls, d \in Calls :
          /\ calls[d].op = "encrypt"
          /\ calls[d].pc = "done"
          /\ calls[d].ret.kind = "value"
          /\ IsNextCall(c)
          /\ DecryptStart(c, calls[d].ret.value, ENCRYPTION_KEY)
          /\ given' = [given EXCEPT ![c] = AsIs(d)]
    /\ UNCHANGED <<drawn, webVars, limVars, recVars, patVars, audVars>>

\* the pbkdf2 callback of call c runs, with a key
LiveDerived(c) ==
    /\ EncryptResume(c) \/ DecryptResume(c)
    /\ UNCHANGED <<given, drawn, webVars, limVars, recVars, patVars, audVars>>

\* the pbkdf2 callback of call c runs, with an error
LiveDeriveFails(c) ==
    /\ DeriveFails(c)
    /\ UNCHANGED <<given, drawn, webVars, limVars, recVars, patVars, audVars>>

LiveCallback(c) == LiveDerived(c) \/ LiveDeriveFails(c)

NextLive == LiveEncrypt \/ LiveDecrypt \/ (\E c \in Calls : LiveCallback(c))

\* No call stays suspended for ever.  LiveDeriveFails(c) is enabled in the
\* states where LiveCallback(c) is, those with call c suspended, and a step
\* of either ends the suspension for good, so weak fairness of one is weak
\* fairness of the other.
SpecLive == Init /\ [][NextLive]_vars /\ \A c \in Calls : WF_vars(LiveDeriveFails(c))

\* ------------------------------------------------------------------------
\* Claims about Encryption
\* ------------------------------------------------------------------------
EnvelopeMin == SALT_LENGTH + IV_LENGTH + TAG_LENGTH

\* call 2 has finished decrypting the unchanged envelope of call 1 under
\* the secret call 1 encrypted with
RoundTripDone ==
    /\ calls[2].pc = "done"
    /\ given[2].kind = "asis"
    /\ calls[2].key = calls[1].key

\* C1 as stated: decrypt(encrypt(P, K), K) returns exactly P for every
\* plaintext string P, whatever salt and iv were drawn.
C1_RoundTrip == RoundTripDone => calls[2].ret = Value(calls[1].arg)

\* C1 (amended): decrypt(encrypt(P, K), K) returns exactly P for every
\* plaintext P in which every surrogate code unit is part of a pair,
\* whatever salt and iv were drawn, the empty plaintext included.
C1_RoundTripWellFormed ==
    (RoundTripDone /\ WellFormed(calls[1].arg)) => calls[2].ret = Value(calls[1].arg)

C1_Witness ==
    /\ RoundTripDone
    /\ calls[1].arg = <<233, 8364>>
    /\ calls[2].ret = Value(<<233, 8364>>)

\* C2: when one byte of the Ciphertext or AuthTag segment of a produced
\* envelope is changed, decrypt under the same secret ends in the
\* authentication error and returns no plaintext.
C2_TamperDetected ==
    (/\ calls[2].pc = "done"
     /\ given[2].kind = "flip"
     /\ calls[2].key = calls[1].key)
    => calls[2].ret = Throw(AuthFailed)

C2_Witness ==
    /\ calls[2].pc = "done"
    /\ given[2].kind = "flip"
    /\ given[2].pos > EnvelopeMin
    /\ calls[2].key = calls[1].key
    /\ calls[2].ret.kind = "error"

\* C3 as stated: a string that decodes to fewer than S+N+T bytes fails with
\* MalformedEnvelope before key derivation or any cipher step runs; a longer
\* or equally long one is not rejected as malformed.
C3_MalformedRejected ==
    calls[2].pc = "done" =>
        IF Len(Base64Decode(calls[2].arg)) < EnvelopeMin
        THEN calls[2].ret = Throw("MalformedEnvelope") /\ calls[2].steps = << >>
        ELSE calls[2].ret.error # "MalformedEnvelope"

\* C8: the decoded envelope of encrypt holds Salt, Nonce, AuthTag and
\* Ciphertext at [0,S), [S,S+N), [S+N,S+N+T) and [S+N+T,end), and decrypt of
\* that envelope reads back the same four values.
C8_LayoutAgreement ==
    /\ calls[1].pc = "done" =>
         LET b == Base64Decode(calls[1].ret.value)
         IN  /\ SubSeq(b, 1, SALT_LENGTH) = calls[1].salt
             /\ SubSeq(b, SALT_LENGTH + 1, SALT_LENGTH + IV_LENGTH) = calls[1].iv
             /\ SubSeq(b, SALT_LENGTH + IV_LENGTH + 1, EnvelopeMin) = calls[1].tag
             /\ SubSeq(b, EnvelopeMin + 1, Len(b)) = calls[1].encrypted
    /\ (calls[2].pc # "idle" /\ given[2].kind = "asis") =>
         /\ calls[2].salt = calls[1].salt
         /\ calls[2].iv = calls[1].iv
         /\ calls[2].tag = calls[1].tag
         /\ calls[2].encrypted = calls[1].encrypted

C8_Witness ==
    /\ calls[2].pc = "await"
    /\ given[2].kind = "asis"
    /\ Len(calls[2].encrypted) > 1
    /\ Len(calls[2].tag) = TAG_LENGTH

\* two finished encrypt calls of the same plaintext under the same secret
SameEncrypt(c, d) ==
    /\ c # d
    /\ calls[c].op = "encrypt" /\ calls[c].pc = "done"
    /\ calls[d].op = "encrypt" /\ calls[d].pc = "done"
    /\ calls[c].arg = calls[d].arg
    /\ calls[c].key = calls[d].key

\* C7 as stated: no two encrypt calls of the same plaintext and secret ever
\* return equal envelopes.
C7_AlwaysFresh ==
    \A c \in Calls, d \in Calls :
        SameEncrypt(c, d) => calls[c].ret.value # calls[d].ret.value

\* C7 (amended): two encrypt calls of the same plaintext and secret return
\* different envelopes exactly when their draws of salt and iv differ; each
\* call draws its own salt and iv.
C7_FreshWhenDrawsDiffer ==
    \A c \in Calls, d \in Calls :
        SameEncrypt(c, d) =>
            ((drawn[c] # drawn[d]) <=> (calls[c].ret.value # calls[d].ret.value))

C7_Witness ==
    \E c \in Calls, d \in Calls :
        /\ SameEncrypt(c, d)
        /\ drawn[c] # drawn[d]
        /\ calls[c].ret.value # calls[d].ret.value

\* C11: the key decrypt derives again from the salt stored in the envelope
\* is the key the producing encrypt call derived from the same secret, and
\* it is KEY_LENGTH bytes long.
C11_SameDerivedKey ==
    RoundTripDone =>
        /\ calls[2].derivedKey = calls[1].derivedKey
        /\ Len(calls[2].derivedKey) = KEY_LENGTH

C11_Witness ==
    /\ RoundTripDone
    /\ calls[1].arg = <<65>>
    /\ drawn[1] = <<2, 1>>
    /\ calls[2].derivedKey = calls[1].derivedKey
    /\ Len(calls[2].derivedKey) = KEY_LENGTH

\* call 2 has finished decrypting the unchanged envelope of call 1 under a
\* secret other than the one call 1 encrypted with
WrongKeyDone ==
    /\ calls[2].pc = "done"
    /\ given[2].kind = "asis"
    /\ calls[2].key # calls[1].key

\* C12: decrypt of a produced envelope under a secret other than the one it
\* was made with ends in the authentication error and returns no plaintext.
C12_WrongKeyFails == WrongKeyDone => calls[2].ret = Throw(AuthFailed)

C12_Witness ==
    /\ WrongKeyDone
    /\ calls[1].key = <<115, 49>>
    /\ calls[2].key = <<115, 50>>
    /\ calls[1].arg = <<49, 50, 51, 45, 52, 53, 45, 54, 55, 56, 57>>
    /\ calls[2].ret.kind = "error"
    /\ calls[2].ret.value = << >>

\* C18: the decoded envelope of encrypt(P, K) is S+N+T bytes plus the UTF-8
\* byte length of P long: longer than S+N+T for a non-empty P, never shorter.
C18_EnvelopeLength ==
    calls[1].pc = "done" =>
        LET n == Len(Base64Decode(calls[1].ret.value))
        IN  /\ n = EnvelopeMin + Len(Utf8Encode(calls[1].arg))
            /\ calls[1].arg # << >> => n > EnvelopeMin
            /\ n >= EnvelopeMin

C18_Witness ==
    /\ calls[1].pc = "done"
    /\ calls[1].arg = <<233, 8364>>
    /\ Len(Base64Decode(calls[1].ret.value)) = EnvelopeMin + 5


OneOutcome(c) ==
    /\ calls[c].ret.kind \in {"value", "error"}
    /\ calls[c].ret.kind = "value" => calls[c].ret.error = "none"
    /\ calls[c].ret.kind = "error" => calls[c].ret.value = << >>
    /\ calls[c].err = Pbkdf2Failed =>
          /\ calls[c].ret = Throw(Pbkdf2Failed)
          /\ calls[c].steps = <<"deriveKey">>
          /\ calls[c].op = "encrypt" => calls[c].encrypted = << >> /\ calls[c].tag = << >>

\* C15: every encrypt or decrypt call that is suspended at its key
\* derivation ends at some time, and a call that has ended has exactly one
\* outcome, a value or an error; when the key derivation reported an error
\* the outcome is that error, after one derivation and no cipher step.
C15_OneOutcome ==
    /\ [](\A c \in Calls : calls[c].pc = "done" => OneOutcome(c))
    /\ \A c \in Calls : (calls[c].pc = "await") ~> (calls[c].pc = "done")

C15_Witness ==
    \E c \in Calls, d \in Calls :
        /\ calls[c].pc = "done" /\ calls[c].op = "decrypt"
        /\ calls[c].err = Pbkdf2Failed
        /\ calls[c].ret = Throw(Pbkdf2Failed)
        /\ calls[d].pc = "done" /\ calls[d].op = "encrypt"
        /\ calls[d].ret.kind = "value"

\* ------------------------------------------------------------------------
\* SpecAccess: one request at a time through the chain of a patient route,
\* verifyToken -> checkPermission(permission) -> handler, with validatePatient
\* in front of the handler of a write; the handler of a write encrypts the
\* body's patient and stores it, the handler of a read decrypts the stored
\* patient.
\* ------------------------------------------------------------------------
\* roles found in verified tokens: the four roles, a role outside the table,
\* a role naming an inherited property, and no role
TokenRoles == {"admin", "doctor", "nurse", "patient", "guest", "toString", "undefined"}

GoodToken(r) == Jwt(1, r, JWT_SECRET, FALSE)

Tokens ==
    { GoodToken(r) : r \in TokenRoles }
    \cup { Jwt(1, "admin", "other-secret", FALSE), Jwt(1, "admin", JWT_SECRET, TRUE) }

Header(h) == [present |-> TRUE, value |-> h]

Headers ==
    { [present |-> FALSE, value |-> << >>] }
    \cup { Header(<<Word("Bearer"), Space, tok>>) : tok \in Tokens }
    \cup { Header(<<Word("Bearer")>>),
           Header(<<GoodToken("admin")>>),
           Header(<<Word("Bearer"), Space, Space, GoodToken("admin")>>),
           Header(<<Word("Basic"), Space, GoodToken("admin")>>),
           Header(<<Word("Bearer"), Space, Word("garbage")>>) }

\* permission strings routes are configured with: the five of the table and
\* one the table does not define
PermissionStrings ==
    { PermissionValues[i] : i \in 1..Len(PermissionValues) } \cup {"delete:patient"}

\* bodies of write requests: a full patient (" Ada ", "123-45-6789", ["flu"]),
\* one without medicalHistory ("<Bo>", "987-65-4321"), and one whose
\* firstName is blank and whose ssn is "A"
Bodies ==
    { [id |-> 1, firstName |-> <<32, 65, 100, 97, 32>>,
       ssn |-> <<49, 50, 51, 45, 52, 53, 45, 54, 55, 56, 57>>,
       medicalHistory |-> JArr(<< <<102, 108, 117>> >>)],
      [id |-> 2, firstName |-> <<60, 66, 111, 62>>,
       ssn |-> <<57, 56, 55, 45, 54, 53, 45, 52, 51, 50, 49>>,
       medicalHistory |-> JUndefined],
      [id |-> 3, firstName |-> <<32, 9>>, ssn |-> <<65>>, medicalHistory |-> JNull] }

\* which of the lastName, dateOfBirth and email chains fail for a body
OtherFieldOutcomes == { {}, {"email"}, {"lastName", "dateOfBirth", "email"} }

Arrive ==
    /\ pc \in {"idle", "done"}
    /\ \E h \in Headers, p \in PermissionStrings, op \in {"read", "write"} :
         \E body \in (IF op = "write" THEN Bodies ELSE {NoPatient}) :
            req' = [authorization |-> h, user |-> NoUser, op |-> op,
                    permission |-> p, body |-> body]
    /\ res' = NoResponse
    /\ pc' = "verifyToken"
    /\ trace' = << >>
    /\ UNCHANGED <<db, encVars, tables, limVars, recVars, patVars, audVars>>

\* the response after a middleware: the first response sent stays
Sent(did) ==
    IF res.status # 0 THEN res
    ELSE IF did.threw THEN Reply(500, "Internal Server Error", HtmlBody)
    ELSE IF did.status # 0 THEN Response(did.status, did.message)
    ELSE res

VerifyToken ==
    /\ pc = "verifyToken"
    /\ LET did == verifyToken(req.authorization)
       IN  /\ req' = [req EXCEPT !.user = did.user]
           /\ res' = Sent(did)
           /\ pc' = IF did.next THEN "checkPermission" ELSE "done"
           /\ trace' = IF did.next THEN Append(trace, "verifyToken.next") ELSE trace
    /\ UNCHANGED <<db, encVars, tables, limVars, recVars, patVars, audVars>>

\* the middleware that comes after checkPermission in the chain
AfterGate == IF req.op = "write" THEN "validatePatient" ELSE "handler"

\* CheckPermission writing a permission it has granted once into the list of
\* every role
CheckPermissionRemembers ==
    /\ pc = "checkPermission"
    /\ LET did == checkPermission(req.permission, req.user)
       IN  /\ res' = Sent(did)
           /\ pc' = IF did.next THEN AfterGate ELSE "done"
           /\ trace' = IF did.next THEN Append(trace, "checkPermission.next") ELSE trace
           /\ tables' = IF did.next
                        THEN [tables EXCEPT !.rolePermissions =
                                [r \in DOMAIN tables.rolePermissions |->
                                   IF Includes(tables.rolePermissions[r], req.permission)
                                   THEN tables.rolePermissions[r]
                                   ELSE Append(tables.rolePermissions[r], req.permission)]]
                        ELSE tables
    /\ UNCHANGED <<req, db, encVars, limVars, recVars, patVars, audVars>>

CheckPermission ==
    /\ pc = "checkPermission"
    /\ LET did == checkPermission(req.permission, req.user)
       IN  /\ res' = Sent(did)
           /\ pc' = IF did.next THEN AfterGate ELSE "done"
           /\ trace' = IF did.next THEN Append(trace, "checkPermission.next") ELSE trace
           /\ tables' = tables
    /\ UNCHANGED <<req, db, encVars, limVars, recVars, patVars, audVars>>

ValidatePatient ==
    /\ pc = "validatePatient"
    /\ \E othersFailed \in OtherFieldOutcomes :
         LET v == validatePatient(req.body, othersFailed)
         IN  /\ req' = [req EXCEPT !.body = v.body]
             /\ res' = IF res.status # 0 THEN res
                       ELSE IF v.errors # << >> THEN ValidationFailed(v.errors)
                       ELSE res
             /\ pc' = IF v.next THEN "handler" ELSE "done"
             /\ trace' = IF v.next THEN Append(trace, "validatePatient.next") ELSE trace
    /\ UNCHANGED <<db, encVars, tables, limVars, recVars, patVars, audVars>>

HandleWrite ==
    /\ pc = "handler"
    /\ req.op = "write"
    /\ \E d \in [1..4 -> 1..NumHandlerSeeds] :
         LET saved == PatientEncrypt(req.body, d)
         IN  /\ db' = IF saved.kind = "value"
                      THEN [present |-> TRUE, row |-> saved.value] ELSE db
             /\ res' = IF res.status # 0 THEN res
                       ELSE IF saved.kind = "value" THEN Reply(201, "", DataBody)
                       ELSE Reply(500, "Internal Server Error", HtmlBody)
    /\ trace' = Append(trace, "Encryption.encrypt")
    /\ pc' = "done"
    /\ UNCHANGED <<req, encVars, tables, limVars, recVars, patVars, audVars>>

HandleRead ==
    /\ pc = "handler"
    /\ req.op = "read"
    /\ res' = IF res.status # 0 THEN res
              ELSE IF ~db.present THEN Reply(404, "Patient not found", ErrorObjectBody)
              ELSE IF PatientDecrypt(db.row).kind = "value" THEN Reply(200, "", DataBody)
              ELSE Reply(500, "Internal Server Error", HtmlBody)
    /\ trace' = IF db.present THEN Append(trace, "Encryption.decrypt") ELSE trace
    /\ pc' = "done"
    /\ UNCHANGED <<req, db, encVars, tables, limVars, recVars, patVars, audVars>>

NextAccess ==
    Arrive \/ VerifyToken \/ CheckPermission \/ ValidatePatient \/ HandleWrite
    \/ HandleRead

SpecAccess == Init /\ [][NextAccess]_vars

\* ------------------------------------------------------------------------
\* Claims about the request gates
\* ------------------------------------------------------------------------
NextCalled(m) == \E i \in 1..Len(trace) : trace[i] = m

\* verifyToken has run for the current request
TokenChecked == pc \in {"checkPermission", "validatePatient", "handler", "done"}

\* checkPermission has run for the current request
PermissionChecked ==
    pc \in {"validatePatient", "handler", "done"} /\ NextCalled("verifyToken.next")

\* p is listed for role r in the rolePermissions table
InTable(r, p) == r \in DOMAIN rolePermissions /\ Includes(rolePermissions[r], p)

\* the roles a principal can have
PrincipalRoles == {roles.ADMIN, roles.DOCTOR, roles.NURSE, roles.PATIENT}

\* C4: for every principal role r and permission string p the gate calls
\* next exactly when p is listed in rolePermissions[r], and otherwise answers
\* 403 'Insufficient permissions'.
C4_TableMembership ==
    PermissionChecked =>
        /\ NextCalled("checkPermission.next") <=> InTable(req.user.role, req.permission)
        /\ (req.user.role \in PrincipalRoles /\ ~InTable(req.user.role, req.permission))
             => res = Response(403, "Insufficient permissions")

C4_Witness ==
    /\ PermissionChecked
    /\ req.user.role = roles.NURSE
    /\ req.permission = permissions.WRITE_PATIENT
    /\ res.status = 403

\* C5: a principal with role admin is admitted for each of the five
\* permissions of the permissions table.
C5_AdminAll ==
    (/\ PermissionChecked
     /\ req.user.role = "admin"
     /\ req.permission \in {"read:patient", "write:patient", "read:record",
                            "write:record", "manage:users"})
    => (NextCalled("checkPermission.next") /\ res.status # 403)

C5_Witness ==
    /\ PermissionChecked
    /\ req.user.role = "admin"
    /\ req.permission = "manage:users"
    /\ NextCalled("checkPermission.next")

\* C6: a principal with role patient is admitted for read:record and for
\* no other permission.
C6_PatientReadRecordOnly ==
    (PermissionChecked /\ req.user.role = "patient")
    => /\ NextCalled("checkPermission.next") <=> (req.permission = "read:record")
       /\ (req.permission # "read:record") => res.status = 403

C6_Witness ==
    /\ PermissionChecked
    /\ req.user.role = "patient"
    /\ req.permission = "write:record"
    /\ ~NextCalled("checkPermission.next")

VerifiableTokens ==
    { req.authorization.value[i] : i \in 1..Len(req.authorization.value) }
    \cap { tok \in Tokens : tok.sig = JWT_SECRET /\ ~tok.expired }

\* C10: verifyToken calls next only when the Authorization header carries a
\* token that verifies against JWT_SECRET, with req.user set to its claims
\* by then; otherwise it answers 401 and next is not called.
C10_AuthenticationRequired ==
    TokenChecked =>
        /\ NextCalled("verifyToken.next") =>
             \E tok \in VerifiableTokens : req.user = User(tok.id, tok.role)
        /\ VerifiableTokens = {} =>
             (~NextCalled("verifyToken.next") /\ res.status = 401 /\ pc = "done")
        /\ ~NextCalled("verifyToken.next") => res.status = 401

C10_Witness ==
    /\ pc = "checkPermission"
    /\ req.user = User(1, "doctor")
    /\ NextCalled("verifyToken.next")

\* C13: the roles, permissions and rolePermissions tables the gate reads are
\* the ones built at module load; nothing that runs for a request changes them.
C13_TablesImmutable == tables = InitialTables

C13_Witness ==
    /\ pc = "done"
    /\ NextCalled("checkPermission.next")
    /\ req.user.role = roles.NURSE
    /\ req.permission = permissions.WRITE_RECORD
    /\ res.status = 201
    /\ tables.rolePermissions[roles.PATIENT] = <<permissions.READ_RECORD>>

\* a middleware of the code has answered the current request with an error
GateError == res.status \in {400, 401, 403}

\* C16 as stated: every error response of verifyToken (401), checkPermission
\* (403) and validatePatient (validation failure) has a body of the form
\* { error: { code, message, details? } }.
C16_ErrorFormat == GateError => res.body = ErrorObjectBody

\* C20 as stated: checkPermission decides every request exactly once, with a
\* 403 response or with next, and a principal whose role is not a key of
\* rolePermissions is denied with 403 whatever the permission.
C20_DecidesOnce ==
    PermissionChecked =>
        /\ (res.status = 403) # NextCalled("checkPermission.next")
        /\ req.user.role \notin DOMAIN rolePermissions =>
              (res.status = 403 /\ ~NextCalled("checkPermission.next"))

\* ------------------------------------------------------------------------
\* SpecLimiter: requests of two clients through apiLimiter, minute by minute
\* ------------------------------------------------------------------------
\* RedisStore.incr: the count goes up by one; a key that was not there is set
\* with windowMs to live
Incr(ip) == [store EXCEPT ![ip].hits = @ + 1]

\* the limiter's handling of a request whose key now counts `current`
apiLimiter(current) ==
    IF current > API_MAX
    THEN [status |-> TOO_MANY_REQUESTS, message |-> API_MESSAGE, next |-> FALSE]
    ELSE [status |-> 0, message |-> "", next |-> TRUE]

ApiRequest(ip) ==
    /\ store[ip].hits <= API_MAX
    /\ ip = QuietIp => store[ip].hits < MaxQuietHits
    /\ store' = Incr(ip)
    /\ LET did == apiLimiter(store'[ip].hits)
       IN  last' = [ip |-> ip, current |-> store'[ip].hits,
                    elapsed |-> store[ip].age, status |-> did.status,
                    message |-> did.message, next |-> did.next]
    /\ UNCHANGED <<encVars, webVars, recVars, patVars, audVars>>

\* a minute passes: keys grow older, a key that has lived windowMs is gone
MinutePasses ==
    /\ store' = [ip \in Ips |->
                   IF store[ip].hits = 0 \/ store[ip].age + MINUTE_MS >= API_WINDOW_MS
                   THEN NoKey
                   ELSE [store[ip] EXCEPT !.age = @ + MINUTE_MS]]
    /\ last' = NoDecision
    /\ UNCHANGED <<encVars, webVars, recVars, patVars, audVars>>

NextLimiter == (\E ip \in Ips : ApiRequest(ip)) \/ MinutePasses

SpecLimiter == Init /\ [][NextLimiter]_vars

\* C17 as stated: an IP is limited to 100 requests per minute: a request is
\* answered 'Too many requests' only when 100 requests of its IP were let
\* through in the one-minute window it falls in, and is let through
\* otherwise; a new minute starts a new count, and the count of another IP
\* plays no part.
C17_PerMinute ==
    /\ last.status = TOO_MANY_REQUESTS =>
          /\ last.current > API_MAX
          /\ last.elapsed < MINUTE_MS
          /\ last.message = API_MESSAGE
          /\ ~last.next
    /\ (last.ip # "" /\ last.current <= API_MAX) =>
          (last.next /\ last.status = 0)

\* ------------------------------------------------------------------------
\* SpecRecords: rows come into medical_records and are queried, through
\* PatientService and through get_patient_records
\* ------------------------------------------------------------------------
InsertRecord ==
    /\ Cardinality(medical_records) < MaxRecords
    /\ \E p \in PatientIds, u \in {NULL} \cup UserIds, t \in RecordDates :
          medical_records' =
              medical_records
              \cup { [id |-> Cardinality(medical_records) + 1, patient_id |-> p,
                      provider_id |-> u, record_date |-> t] }
    /\ result' = NoQuery
    /\ UNCHANGED <<encVars, webVars, limVars, patVars, audVars>>

\* GET /records/:patientId?startDate&endDate served by PatientService, which
\* takes the patient and the start date
GetRecords ==
    /\ \E p \in PatientIds, s \in {NULL} \cup Days, e \in {NULL} \cup Days :
          \E rows \in getPatientRecords(medical_records, p, s) :
             result' = [fn |-> "getPatientRecords", patientId |-> p,
                        startDate |-> s, endDate |-> e, rows |-> rows]
    /\ UNCHANGED <<medical_records, encVars, webVars, limVars, patVars, audVars>>

CallProcedure ==
    /\ \E p \in PatientIds, s \in {NULL} \cup Days, e \in {NULL} \cup Days :
          \E rows \in get_patient_records(medical_records, UserIds, p, s, e) :
             result' = [fn |-> "get_patient_records", patientId |-> p,
                        startDate |-> s, endDate |-> e, rows |-> rows]
    /\ UNCHANGED <<medical_records, encVars, webVars, limVars, patVars, audVars>>

NextRecords == InsertRecord \/ GetRecords \/ CallProcedure

SpecRecords == Init /\ [][NextRecords]_vars

\* the rows the latest query asks for
Asked ==
    { r \in medical_records :
        /\ r.patient_id = result.patientId
        /\ (result.startDate = NULL
             \/ r.record_date >= DateToTimestamp(result.startDate))
        /\ (result.endDate = NULL
             \/ r.record_date <= DateToTimestamp(result.endDate)) }

\* C19 as stated: a record query returns exactly the rows of the patient
\* whose record_date is not before the start date and not after the end
\* date, where given, each once, latest first.
C19_RecordQuery ==
    result.fn # "none" =>
        /\ { result.rows[i] : i \in 1..Len(result.rows) } = Asked
        /\ Len(result.rows) = Cardinality(Asked)
        /\ \A i \in 1..(Len(result.rows) - 1) :
              result.rows[i].record_date >= result.rows[i + 1].record_date

\* ------------------------------------------------------------------------
\* SpecPatient: a patient object is encrypted with Patient.encrypt and the
\* outcome is decrypted with Patient.decrypt
\* ------------------------------------------------------------------------
\* patient objects: a full one ("123-45-6789", ["flu"]), one whose history
\* is null, one whose history is the string a"\uD83D, one without
\* medicalHistory, one whose ssn is the unpaired surrogate \uD83D, and one
\* whose ssn is empty
Patients ==
    { [id |-> 1, firstName |-> <<65, 100, 97>>,
       ssn |-> <<49, 50, 51, 45, 52, 53, 45, 54, 55, 56, 57>>,
       medicalHistory |-> JArr(<< <<102, 108, 117>> >>)],
      [id |-> 2, firstName |-> <<66, 111>>, ssn |-> <<49, 45, 50>>,
       medicalHistory |-> JNull],
      [id |-> 3, firstName |-> <<67>>, ssn |-> <<51>>,
       medicalHistory |-> JStr(<<97, 34, 55357>>)],
      [id |-> 4, firstName |-> <<68>>, ssn |-> <<52, 45, 53>>,
       medicalHistory |-> JUndefined],
      [id |-> 5, firstName |-> <<69>>, ssn |-> <<55357>>,
       medicalHistory |-> JArr(<< >>)],
      [id |-> 6, firstName |-> << >>, ssn |-> << >>,
       medicalHistory |-> JStr(<< >>)] }

\* await Patient.encrypt(p), the draws of its randomBytes calls being d
EncryptPatient ==
    /\ patient.pc \in {"none", "encrypted", "decrypted"}
    /\ \E p \in Patients, d \in [1..4 -> Seeds] :
          patient' = [pc |-> "encrypted", plain |-> p,
                      stored |-> PatientEncrypt(p, d), opened |-> NoResult]
    /\ UNCHANGED <<encVars, webVars, limVars, recVars, audVars>>

\* await Patient.decrypt(stored), for a stored object Patient.encrypt returned
DecryptPatient ==
    /\ patient.pc = "encrypted"
    /\ patient.stored.kind = "value"
    /\ patient' = [patient EXCEPT !.pc = "decrypted",
                                  !.opened = PatientDecrypt(patient.stored.value)]
    /\ UNCHANGED <<encVars, webVars, limVars, recVars, audVars>>

NextPatient == EncryptPatient \/ DecryptPatient

SpecPatient == Init /\ [][NextPatient]_vars

\* the fields of a patient object other than ssn and medicalHistory
OtherFields(p) == [id |-> p.id, firstName |-> p.firstName]

\* C21 as stated: Patient.encrypt returns the object with ssn and
\* medicalHistory replaced by envelopes (of the ssn and of the history's JSON
\* text), never the plaintext, and every other field as it was;
\* Patient.decrypt of that object returns the ssn and medicalHistory of the
\* original, and every other field as it was.
C21_DesignatedFieldsOnly ==
    /\ patient.pc \in {"encrypted", "decrypted"} =>
          /\ patient.stored.kind = "value"
          /\ OtherFields(patient.stored.value) = OtherFields(patient.plain)
          /\ patient.stored.value.ssn # patient.plain.ssn
          /\ Len(Base64Decode(patient.stored.value.ssn))
               = EnvelopeMin + Len(Utf8Encode(patient.plain.ssn))
          /\ Len(Base64Decode(patient.stored.value.medicalHistory))
               = EnvelopeMin + Len(Utf8Encode(JsonStringify(patient.plain.medicalHistory)))
    /\ patient.pc = "decrypted" =>
          /\ patient.opened.kind = "value"
          /\ OtherFields(patient.opened.value) = OtherFields(patient.plain)
          /\ patient.opened.value.ssn = patient.plain.ssn
          /\ patient.opened.value.medicalHistory = patient.plain.medicalHistory

\* ------------------------------------------------------------------------
\* SpecAudit: requests on a route using logDataAccess, whose handler answers
\* with res.send(body)
\* ------------------------------------------------------------------------
\* the requests: with and without req.user, two paths, methods, queries and
\* request bodies
AccessRequests ==
    [user : {NoUser, User(1, "doctor"), User(2, "patient")},
     path : {"/patients/1", "/records/1"}, method : {"GET", "POST"},
     query : {"", "page=2"}, body : {"", "{\"firstName\":\"Ada\"}"}]

AccessArrive ==
    /\ access.pc \in {"idle", "done"}
    /\ \E r \in AccessRequests :
          access' = [pc |-> "logDataAccess", req |-> r, send |-> "original",
                     handed |-> "", sent |-> << >>, order |-> << >>,
                     threw |-> "none", status |-> 0, base |-> Len(auditLog)]
    /\ UNCHANGED <<auditLog, encVars, webVars, limVars, recVars, patVars>>

\* logDataAccess(req, res, next): res.send is replaced, then next()
LogDataAccess ==
    /\ access.pc = "logDataAccess"
    /\ access' = [access EXCEPT !.send = "patched", !.pc = "handler"]
    /\ UNCHANGED <<auditLog, encVars, webVars, limVars, recVars, patVars>>

\* the route handler calls res.send(body); an error the call throws is
\* answered by Express with status 500
HandlerSend ==
    /\ access.pc = "handler"
    /\ \E body \in {"{\"id\":1}", "[]"} :
          LET a == [access EXCEPT !.handed = body, !.pc = "done"]
              did == IF a.send = "patched" THEN send(a, auditLog, body)
                     ELSE [access |-> originalSend(a, body), log |-> auditLog]
          IN  /\ access' = IF did.access.threw # "none"
                            THEN [did.access EXCEPT !.status = 500]
                            ELSE did.access
              /\ auditLog' = did.log
    /\ UNCHANGED <<encVars, webVars, limVars, recVars, patVars>>

NextAudit == AccessArrive \/ LogDataAccess \/ HandlerSend

SpecAudit == Init /\ [][NextAudit]_vars

\* C22 as stated: when the handler of a route using logDataAccess has called
\* res.send(body), exactly one entry has been written to the audit log for
\* the call (the user's id, 'data_access', the request's path, and its
\* method, query and body), it was written before the body was handed to the
\* original send, the original send got the unchanged body, and no response
\* has left without an entry.
C22_AuditedFirst ==
    /\ access.pc = "done" =>
          /\ Len(auditLog) = access.base + 1
          /\ auditLog[Len(auditLog)].userId = access.req.user.id
          /\ auditLog[Len(auditLog)].action = "data_access"
          /\ auditLog[Len(auditLog)].resource = access.req.path
          /\ auditLog[Len(auditLog)].details =
                [method |-> access.req.method, query |-> access.req.query,
                 body |-> access.req.body]
          /\ access.order = <<"logAudit", "originalSend">>
          /\ access.sent = <<access.handed>>
    /\ access.status # 0 => Len(auditLog) > access.base

====
